---- MODULE Spec2Model ----
(***************************************************************************)
(* Model of agent_dashboard.py: a Streamlit dashboard that downloads a     *)
(* workbook, computes value-capture percentages (VCP) per season for an    *)
(* agent or agency, and renders leaderboards and player cards.             *)
(*                                                                         *)
(* Money is counted in one fixed unit; the ratios do not depend on it.  A  *)
(* percentage returned by compute_vcp_for_agent is held in hundredths of a *)
(* percent (93.75% is 9375); a percentage of compute_agent_vcp_by_season   *)
(* is a whole percent.                                                     *)
(***************************************************************************)
EXTENDS Integers, Sequences, FiniteSets, TLC

VARIABLES
    phase,          \* position of the script run being modelled
    piba_data,      \* the player worksheet ("PIBA"): a sequence of rows
    columns,        \* the season columns the player worksheet has
    selected,       \* the agent or agency chosen in the selector
    agent_players,  \* the rows of the chosen agent or agency
    vcp_for_agent,  \* result of compute_vcp_for_agent, per season
    chart,          \* y values handed to the 'Agent VCP' trace
    player_df,      \* the rows handed to display_player_section
    cards,          \* the player cards display_player_section rendered
    agents_data,    \* the 'Agents' worksheet: its 'Agent Name' column
    ranks_data,     \* the 'Just Agent Ranks' worksheet: a sequence of rows
    tie_order,      \* the order the default sort leaves rows of equal key in
    agent_vcp_by_season, \* result of compute_agent_vcp_by_season, or that it raised
    board,          \* what leaderboard_page rendered
    headshots_dir,  \* the headshots_cache directory: absent, empty, invalid, extracted, unreadable
    headshot_files, \* the files in the headshots_cache directory
    images,         \* the image get_headshot_path gave for each player name looked up
    cache,          \* the st.cache_data entries of the loader functions
    run             \* the script run of the selected page: what it fetched and rendered

profileVars == <<selected, agent_players, vcp_for_agent, chart>>
cardVars == <<player_df, cards>>
boardVars == <<agents_data, ranks_data, tie_order, agent_vcp_by_season, board>>
appVars == <<headshots_dir, headshot_files, images, cache, run>>
vars == <<phase, piba_data, columns, profileVars, cardVars, boardVars, appVars>>

----------------------------------------------------------------------------
(* Values.  A worksheet cell is a number, an empty cell (NaN after parsing) *)
(* or a text.  A computed value is a number, NaN or Python's None.          *)

Num(n) == [k |-> "num", v |-> n]
NaN == [k |-> "nan", v |-> 0]
Text == [k |-> "text", v |-> 0]
None == [k |-> "none", v |-> 0]

\* pd.to_numeric(x, errors='coerce'): what is not a number becomes NaN
to_numeric(cell) == IF cell.k = "num" THEN cell ELSE NaN

\* Series.sum(): NaN entries are skipped, the empty sum is 0
RECURSIVE SeriesSum(_)
SeriesSum(cells) ==
    IF cells = <<>> THEN 0
    ELSE (IF Head(cells).k = "num" THEN Head(cells).v ELSE 0) + SeriesSum(Tail(cells))

\* round(n / d) to the nearest integer, ties to the even one (n >= 0, d > 0)
RoundDiv(n, d) ==
    LET q == n \div d
        r == n % d
    IN  IF 2 * r < d THEN q
        ELSE IF 2 * r > d THEN q + 1
        ELSE IF q % 2 = 0 THEN q ELSE q + 1

----------------------------------------------------------------------------
(* Strings.  A name is a sequence of tokens: words, and " " for a run of   *)
(* white space.                                                            *)

\* str.lower() of one word
LowerTok(t) ==
    CASE t = "Colle" -> "colle" [] t = "Dal" -> "dal"
      [] t = "Giuseppe" -> "giuseppe" [] t = "Di" -> "di"
      [] t = "Zotto" -> "zotto" [] t = "Del" -> "del"
      [] t = "Evgeny" -> "evgeny" [] t = "Svechnikov" -> "svechnikov"
      [] t = "Cal" -> "cal" [] t = "Foote" -> "foote"
      [] t = "Michael" -> "michael" [] t = "Phil" -> "phil"
      [] t = "McLeod" -> "mcleod" [] t = "mcLeod" -> "mcleod" [] t = "McDavid" -> "mcdavid"
      [] t = "Connor" -> "connor" [] t = "Conor" -> "conor"
      [] t = "Wayne" -> "wayne" [] t = "Gretzky" -> "gretzky"
      [] t = ".PNG" -> ".png" [] t = "Riemsdyk" -> "riemsdyk" [] t = "Van" -> "van"
      [] OTHER -> t

\* str.lower()
Lower(name) == [i \in 1..Len(name) |-> LowerTok(name[i])]

\* str.strip(): leading and trailing white space removed
RECURSIVE Strip(_)
Strip(name) ==
    IF name = <<>> THEN name
    ELSE IF Head(name) = " " THEN Strip(Tail(name))
    ELSE IF name[Len(name)] = " " THEN Strip(SubSeq(name, 1, Len(name) - 1))
    ELSE name

----------------------------------------------------------------------------
(* The six seasons and their column names.                                  *)

seasons == <<
    [season |-> "2018-19", cost_col |-> "COST 18-19", pc_col |-> "PC 18-19"],
    [season |-> "2019-20", cost_col |-> "COST 19-20", pc_col |-> "PC 19-20"],
    [season |-> "2020-21", cost_col |-> "COST 20-21", pc_col |-> "PC 20-21"],
    [season |-> "2021-22", cost_col |-> "COST 21-22", pc_col |-> "PC 21-22"],
    [season |-> "2022-23", cost_col |-> "COST 22-23", pc_col |-> "PC 22-23"],
    [season |-> "2023-24", cost_col |-> "COST 23-24", pc_col |-> "PC 23-24"] >>

SeasonIdx == DOMAIN seasons
SeasonNames == {seasons[i].season : i \in SeasonIdx}
SeasonColumns == {seasons[i].cost_col : i \in SeasonIdx} \cup {seasons[i].pc_col : i \in SeasonIdx}

\* df[col] as a sequence of cells, in row order
Column(df, col) == [i \in 1..Len(df) |-> df[i].cells[col]]

----------------------------------------------------------------------------
(* compute_vcp_for_agent: per season, 100 * total cost / total PC rounded  *)
(* to two decimals, None when the total PC is 0 or a column is missing      *)
(* (the KeyError is caught).                                                *)

VcpSeasonWrongRatio(df, cols, s) ==
    IF s.cost_col \notin cols \/ s.pc_col \notin cols THEN None
    ELSE LET total_cost == SeriesSum([i \in 1..Len(df) |-> to_numeric(df[i].cells[s.cost_col])])
             total_pc == SeriesSum([i \in 1..Len(df) |-> to_numeric(df[i].cells[s.pc_col])])
         IN  IF total_cost # 0 THEN Num(RoundDiv(10000 * total_pc, total_cost)) ELSE None

VcpSeasonNoGuard(df, cols, s) ==
    IF s.cost_col \notin cols \/ s.pc_col \notin cols THEN None
    ELSE LET total_cost == SeriesSum([i \in 1..Len(df) |-> to_numeric(df[i].cells[s.cost_col])])
             total_pc == SeriesSum([i \in 1..Len(df) |-> to_numeric(df[i].cells[s.pc_col])])
         IN  IF total_pc # 0 THEN Num(RoundDiv(10000 * total_cost, total_pc))
             ELSE [k |-> "inf", v |-> 0]

\* the season's premium: what the clients were paid above their value, not a ratio
VcpSeasonPremium(df, cols, s) ==
    IF s.cost_col \notin cols \/ s.pc_col \notin cols THEN None
    ELSE LET total_cost == SeriesSum([i \in 1..Len(df) |-> to_numeric(df[i].cells[s.cost_col])])
             total_pc == SeriesSum([i \in 1..Len(df) |-> to_numeric(df[i].cells[s.pc_col])])
         IN  IF total_pc # 0 THEN Num(10000 + 100 * (total_cost - total_pc)) ELSE None

\* rows with a cell that is not a number are dropped before the sums
VcpSeasonDropRows(df, cols, s) ==
    IF s.cost_col \notin cols \/ s.pc_col \notin cols THEN None
    ELSE LET kept == SelectSeq(df, LAMBDA r : r.cells[s.cost_col].k = "num" /\ r.cells[s.pc_col].k = "num")
             total_cost == SeriesSum([i \in 1..Len(kept) |-> kept[i].cells[s.cost_col]])
             total_pc == SeriesSum([i \in 1..Len(kept) |-> kept[i].cells[s.pc_col]])
         IN  IF total_pc # 0 THEN Num(RoundDiv(10000 * total_cost, total_pc)) ELSE None

\* the percentage capped at 100
VcpSeasonCapped(df, cols, s) ==
    IF s.cost_col \notin cols \/ s.pc_col \notin cols THEN None
    ELSE LET total_cost == SeriesSum([i \in 1..Len(df) |-> to_numeric(df[i].cells[s.cost_col])])
             total_pc == SeriesSum([i \in 1..Len(df) |-> to_numeric(df[i].cells[s.pc_col])])
             pct == RoundDiv(10000 * total_cost, total_pc)
         IN  IF total_pc # 0 THEN Num(IF pct > 10000 THEN 10000 ELSE pct) ELSE None

VcpSeason(df, cols, s) ==
    IF s.cost_col \notin cols \/ s.pc_col \notin cols THEN None
    ELSE LET total_cost == SeriesSum([i \in 1..Len(df) |-> to_numeric(df[i].cells[s.cost_col])])
             total_pc == SeriesSum([i \in 1..Len(df) |-> to_numeric(df[i].cells[s.pc_col])])
         IN  IF total_pc # 0 THEN Num(RoundDiv(10000 * total_cost, total_pc)) ELSE None

compute_vcp_for_agent(df, cols) ==
    [name \in SeasonNames |->
        LET s == CHOOSE x \in {seasons[i] : i \in SeasonIdx} : x.season = name
        IN  VcpSeason(df, cols, s)]

\* plot_vcp_line_graph: the y values of the 'Agent VCP' trace, in season order
plot_vcp_line_graph(vcp_per_year) ==
    [i \in SeasonIdx |->
        IF seasons[i].season \in DOMAIN vcp_per_year
        THEN vcp_per_year[seasons[i].season] ELSE NaN]

----------------------------------------------------------------------------
(* Player rows.  A row names its agent and agency and holds one cost cell  *)
(* and one PC cell per season.                                             *)

MaxRows == 2

NoName == <<>>
AgentA == <<"Allain", " ", "Roy">>
AgentB == <<"Pat", " ", "Brisson">>
AgentC == <<"Don", " ", "Meehan">>
AgencyX == <<"RSG", " ", "Hockey">>
AgencyY == <<"Newport", " ", "Sports">>

AgencyOf(agent) == IF agent = AgentC THEN AgencyY ELSE AgencyX

\* the seasons a sample row has data for: all six, or the first three
SeasonPatterns == {SeasonIdx, {1, 2, 3}}

\* (cost, PC) of a sample row in the seasons it has data for
CellPairs == {
    <<Num(10), Num(12)>>, <<Num(5), Num(4)>>, <<Num(0), Num(0)>>,
    <<Num(5), Num(0)>>, <<NaN, NaN>>, <<Text, Num(4)>>, <<Num(4), Text>>,
    <<Num(20002), Num(20001)>> }

MkRow(agent, cp, pat) ==
    [agent |-> agent, agency |-> AgencyOf(agent),
     cells |-> [col \in SeasonColumns |->
        LET i == CHOOSE j \in SeasonIdx : col \in {seasons[j].cost_col, seasons[j].pc_col}
        IN  IF i \notin pat THEN NaN
            ELSE IF col = seasons[i].cost_col THEN cp[1] ELSE cp[2]]]

ProfileRows ==
    {MkRow(AgentA, cp, pat) : cp \in CellPairs, pat \in SeasonPatterns}
    \cup {MkRow(AgentB, cp, SeasonIdx) : cp \in CellPairs}

\* a worksheet parsed without one of its season columns
ColumnSets == {SeasonColumns, SeasonColumns \ {"COST 19-20"}, SeasonColumns \ {"PC 20-21"}}

SeqsUpTo(S, n) == UNION {[1..m -> S] : m \in 0..n}

\* df[df[field] == value]
FilterRows(df, field, value) == SelectSeq(df, LAMBDA r : r[field] = value)

----------------------------------------------------------------------------
(* Profile pages: lines 595-597 of agent_dashboard and 636-638 of          *)
(* agency_dashboard filter the player rows, compute the VCP per season and *)
(* plot it.                                                                *)

ProfileIdle ==
    /\ selected = NoName
    /\ agent_players = <<>>
    /\ vcp_for_agent = [name \in SeasonNames |-> None]
    /\ chart = [i \in SeasonIdx |-> NaN]

CardIdle ==
    /\ player_df = <<>>
    /\ cards = <<>>

NoBoard ==
    [filter_option |-> FALSE, overall |-> <<>>, raised |-> "none",
     lists |-> [i \in SeasonIdx |-> [winners |-> <<>>, losers |-> <<>>]]]

NoTables == [raised |-> "none", tables |-> [i \in SeasonIdx |-> <<>>]]

BoardIdle ==
    /\ agents_data = <<>>
    /\ ranks_data = <<>>
    /\ tie_order = "source"
    /\ agent_vcp_by_season = NoTables
    /\ board = NoBoard

NoRun ==
    [page |-> "Home", fetches |-> 0, failed |-> FALSE, downloads |-> 0, errors |-> 0,
     content |-> <<>>, raised |-> "none", stopped |-> FALSE]

NoCache == [fn \in {"load_data", "load_agencies_data"} |-> [has |-> FALSE, value |-> "none"]]

\* the result of a headshot lookup that found nothing (Python's None)
NoImage == [k |-> "none", v |-> <<>>]

NoImages == [n \in {} |-> NoImage]

AppIdle ==
    /\ headshots_dir = "absent"
    /\ headshot_files = {}
    /\ images = NoImages
    /\ cache = NoCache
    /\ run = NoRun

InitProfile ==
    /\ phase = "loaded"
    /\ piba_data \in SeqsUpTo(ProfileRows, MaxRows)
    /\ columns \in ColumnSets
    /\ ProfileIdle
    /\ CardIdle
    /\ BoardIdle
    /\ AppIdle

agent_dashboard_vcp(agent) ==
    /\ phase \in {"loaded", "profiled"}
    /\ selected' = agent
    /\ agent_players' = FilterRows(piba_data, "agent", agent)
    /\ vcp_for_agent' = compute_vcp_for_agent(agent_players', columns)
    /\ chart' = plot_vcp_line_graph(vcp_for_agent')
    /\ phase' = "profiled"
    /\ UNCHANGED <<piba_data, columns, cardVars, boardVars, appVars>>

agency_dashboard_vcp(agency) ==
    /\ phase \in {"loaded", "profiled"}
    /\ selected' = agency
    /\ agent_players' = FilterRows(piba_data, "agency", agency)
    /\ vcp_for_agent' = compute_vcp_for_agent(agent_players', columns)
    /\ chart' = plot_vcp_line_graph(vcp_for_agent')
    /\ phase' = "profiled"
    /\ UNCHANGED <<piba_data, columns, cardVars, boardVars, appVars>>

NextProfile ==
    \/ \E agent \in {AgentA, AgentB, AgentC} : agent_dashboard_vcp(agent)
    \/ \E agency \in {AgencyX, AgencyY} : agency_dashboard_vcp(agency)

SpecProfile == InitProfile /\ [][NextProfile]_vars

----------------------------------------------------------------------------
(* Totals of a season over the chosen rows, counted cell by cell.          *)

RECURSIVE TotalOf(_, _, _)
TotalOf(df, col, n) ==
    IF n = 0 THEN 0
    ELSE TotalOf(df, col, n - 1) + (IF df[n].cells[col].k = "num" THEN df[n].cells[col].v ELSE 0)

SeasonCost(i) == TotalOf(agent_players, seasons[i].cost_col, Len(agent_players))
SeasonValue(i) == TotalOf(agent_players, seasons[i].pc_col, Len(agent_players))
SeasonHasColumns(i) == seasons[i].cost_col \in columns /\ seasons[i].pc_col \in columns

\* C1: when a season's on-ice values of the chosen rows sum to a positive
\* number (and the season's columns exist), compute_vcp_for_agent returns a
\* number for it that is 100 * total cost / total value to two decimals:
\* it lies within half a hundredth of the exact ratio.
C1_CapturePct ==
    phase = "profiled" =>
        \A i \in SeasonIdx :
            (SeasonHasColumns(i) /\ SeasonValue(i) > 0) =>
                LET r == vcp_for_agent[seasons[i].season]
                    d == r.v * SeasonValue(i) - 10000 * SeasonCost(i)
                IN  /\ r.k = "num"
                    /\ 2 * d <= SeasonValue(i)
                    /\ 2 * d >= 0 - SeasonValue(i)

\* C1 witness: the rows (1,000,000 / 1,200,000) and (500,000 / 400,000) of
\* one agent give 93.75 in a season.
C1_Example ==
    /\ phase = "profiled"
    /\ Len(agent_players) = 2
    /\ \E i \in SeasonIdx :
        /\ SeasonHasColumns(i)
        /\ agent_players[1].cells[seasons[i].cost_col] = Num(10)
        /\ agent_players[1].cells[seasons[i].pc_col] = Num(12)
        /\ agent_players[2].cells[seasons[i].cost_col] = Num(5)
        /\ agent_players[2].cells[seasons[i].pc_col] = Num(4)
        /\ vcp_for_agent[seasons[i].season] = Num(9375)

\* C2: when a season's on-ice values of the chosen rows sum to zero (no
\* rows, all cells missing, or all zero), compute_vcp_for_agent returns None
\* for the season and the chart trace gets None (a gap) for it.
C2_ZeroValueUndefined ==
    phase = "profiled" =>
        \A i \in SeasonIdx :
            SeasonValue(i) = 0 =>
                /\ vcp_for_agent[seasons[i].season] = None
                /\ chart[i] = None

\* C2 witness: a profile whose rows all lack a season's value, with a
\* positive cost in it, and one with no rows at all.
C2_AllMissing ==
    /\ phase = "profiled"
    /\ Len(agent_players) = 2
    /\ \E i \in SeasonIdx :
        /\ SeasonHasColumns(i)
        /\ SeasonCost(i) > 0
        /\ \A n \in 1..2 : agent_players[n].cells[seasons[i].pc_col].k # "num"
        /\ chart[i] = None

----------------------------------------------------------------------------
(* Sorting.  DataFrame.sort_values is called without kind=, so it runs the *)
(* library's default quicksort, which the library documents as not stable: *)
(* rows with equal keys come out in an order the sort build decides        *)
(* (tie_order).  Missing keys are placed last, in source order.  Python's  *)
(* sorted() is stable, also with reverse=True.                             *)

TieOrders == {"source", "reverse"}

IsNA(x) == x.k \in {"nan", "none"}

SortBefore(df, by, ascending, tie, i, j) ==
    LET a == df[i][by]
        b == df[j][by]
    IN  IF IsNA(a) /\ IsNA(b) THEN i < j
        ELSE IF IsNA(a) THEN FALSE
        ELSE IF IsNA(b) THEN TRUE
        ELSE IF a.v # b.v THEN (IF ascending THEN a.v < b.v ELSE a.v > b.v)
        ELSE IF tie = "source" THEN i < j ELSE i > j

Arrange(df, by, ascending, tie) ==
    LET n == Len(df)
        Pos(i) == 1 + Cardinality({j \in 1..n : j # i /\ SortBefore(df, by, ascending, tie, j, i)})
    IN  [p \in 1..n |-> df[CHOOSE i \in 1..n : Pos(i) = p]]

\* df.sort_values(by=..., ascending=...)
sort_values(df, by, ascending, tie) == Arrange(df, by, ascending, tie)

\* sorted(rows, key=lambda x: x[by], reverse=...)
sorted_py(rows, by, reverse) == Arrange(rows, by, ~reverse, "source")

\* df.head(n)
head(df, n) == SubSeq(df, 1, IF Len(df) < n THEN Len(df) ELSE n)

----------------------------------------------------------------------------
(* Player cards (display_player_section).  A row of the player worksheet   *)
(* reaches the loop through iterrows(): the worksheet has text columns, so *)
(* the row is an object Series and its numbers are Python numbers, whose   *)
(* division by zero raises ZeroDivisionError.                              *)

MaxCards == 2

\* correct_player_name: the corrections table, keyed as written in the source
corrections ==
    [k \in { <<"zotto", " ", "del">>, <<"riemsdyk", " ", "van">>,
             <<"alexandre", " ", "carrier", " ", "a">>, <<"lias", " ", "andersson", " ", "l">>,
             <<"jesper", " ", "boqvist", " ", "j">>, <<"sompel", " ", "vande">>,
             <<"Colle", " ", "Dal">>, <<"Giuseppe", " ", "Di">> } |->
        CASE k = <<"zotto", " ", "del">> -> <<"Michael", " ", "Del", " ", "Zotto">>
          [] k = <<"riemsdyk", " ", "van">> -> <<"James", " ", "Van", " ", "Riemsdyk">>
          [] k = <<"alexandre", " ", "carrier", " ", "a">> -> <<"Alexandre", " ", "Carrier">>
          [] k = <<"lias", " ", "andersson", " ", "l">> -> <<"Lias", " ", "Andersson">>
          [] k = <<"jesper", " ", "boqvist", " ", "j">> -> <<"Jesper", " ", "Boqvist">>
          [] k = <<"sompel", " ", "vande">> -> <<"Mitch", " ", "Vande", " ", "Sompel">>
          [] k = <<"Colle", " ", "Dal">> -> <<"Michael", " ", "Dal", " ", "Colle">>
          [] k = <<"Giuseppe", " ", "Di">> -> <<"Phil", " ", "Di", " ", "Giuseppe">>]

correct_player_name(name) ==
    LET lower_name == Strip(Lower(name))
    IN  IF lower_name \in DOMAIN corrections THEN corrections[lower_name] ELSE name

SvechnikovCost == 23

\* a / b on numpy scalars: a zero divisor gives inf or nan, nothing is raised
NumpyDivide(a, b) ==
    IF a.k = "nan" \/ b.k = "nan" THEN [k |-> "nan", n |-> 0, d |-> 1]
    ELSE IF b.v = 0 THEN [k |-> (IF a.v = 0 THEN "nan" ELSE "inf"), n |-> 0, d |-> 1]
    ELSE [k |-> "num", n |-> a.v, d |-> b.v]

\* a / b on Python numbers, as the exact fraction n / d: a zero divisor
\* raises ZeroDivisionError (also for a NaN dividend), NaN propagates
PyDivide(a, b) ==
    IF b.k = "num" /\ b.v = 0 THEN [k |-> "raise", n |-> 0, d |-> 1]
    ELSE IF a.k = "nan" \/ b.k = "nan" THEN [k |-> "nan", n |-> 0, d |-> 1]
    ELSE [k |-> "num", n |-> a.v, d |-> b.v]

\* a card whose percentage is taken from the sheet's cost, whatever cost it prints
PlayerCardSheetCost(player) ==
    LET display_name == correct_player_name(player.name)
        override == display_name = <<"Evgeny", " ", "Svechnikov">>
        cost_value == IF override THEN Num(SvechnikovCost) ELSE player.total_cost
        q == PyDivide(player.total_cost, player.total_pc)
        vcp_value == IF q.k = "raise" THEN [k |-> "none", n |-> 0, d |-> 1]
                     ELSE [k |-> q.k, n |-> 100 * q.n, d |-> q.d]
    IN  [display_name |-> display_name,
         delivery |-> IF override THEN Num(SvechnikovCost) ELSE player.delivery,
         cost |-> cost_value,
         value |-> player.total_pc,
         vcp_value |-> vcp_value,
         percent_line |-> vcp_value.k # "none",
         percent |-> IF vcp_value.k = "num" THEN Num(RoundDiv(vcp_value.n, vcp_value.d))
                     ELSE [k |-> vcp_value.k, v |-> 0]]

\* one card: lines 397-421
PlayerCard(player) ==
    LET display_name == correct_player_name(player.name)
        override == display_name = <<"Evgeny", " ", "Svechnikov">>
        cost_value == IF override THEN Num(SvechnikovCost) ELSE player.total_cost
        delivery_value == IF override THEN Num(SvechnikovCost) ELSE player.delivery
        q == PyDivide(cost_value, player.total_pc)
        vcp_value == IF q.k = "raise" THEN [k |-> "none", n |-> 0, d |-> 1]
                     ELSE [k |-> q.k, n |-> 100 * q.n, d |-> q.d]
    IN  [display_name |-> display_name,
         delivery |-> delivery_value,
         cost |-> cost_value,
         value |-> player.total_pc,
         vcp_value |-> vcp_value,
         \* the 'Percent of Value Captured' line and the number printed in it
         percent_line |-> vcp_value.k # "none",
         percent |-> IF vcp_value.k = "num" THEN Num(RoundDiv(vcp_value.n, vcp_value.d))
                     ELSE [k |-> vcp_value.k, v |-> 0]]

display_player_section(df) == [i \in 1..Len(df) |-> PlayerCard(df[i])]

\* sample rows: names, six-year cost and six-year value; the delivery column
\* holds cost - value
CardNames == { <<"Evgeny", " ", "Svechnikov">>, <<"zotto", " ", "del">>,
               <<"Colle", " ", "Dal">>, <<"Cal", " ", "Foote">>, <<"riemsdyk", " ", "van">> }
CardCosts == {NaN, Num(0), Num(10)}
CardValues == {NaN, Num(0), Num(12)}

MkPlayer(name, cost, pc) ==
    [name |-> name, total_cost |-> cost, total_pc |-> pc,
     delivery |-> IF cost.k = "num" /\ pc.k = "num" THEN Num(cost.v - pc.v) ELSE NaN]

CardRows == {MkPlayer(n, c, p) : n \in CardNames, c \in CardCosts, p \in CardValues}

InitCards ==
    /\ phase = "loaded"
    /\ piba_data = <<>>
    /\ columns = SeasonColumns
    /\ ProfileIdle
    /\ player_df \in SeqsUpTo(CardRows, MaxCards)
    /\ cards = <<>>
    /\ BoardIdle
    /\ AppIdle

render_player_section ==
    /\ phase = "loaded"
    /\ cards' = display_player_section(player_df)
    /\ phase' = "rendered"
    /\ UNCHANGED <<piba_data, columns, profileVars, player_df, boardVars, appVars>>

\* the words of the sample names in the order Python compares strings
\* (capitals before small letters)
WordsInOrder == <<"Cal", "Colle", "Dal", "Evgeny", "Foote", "Svechnikov",
                  "del", "riemsdyk", "van", "zotto">>

WordRank(w) == CHOOSE i \in 1..Len(WordsInOrder) : WordsInOrder[i] = w

\* name.split()[-1]
LastWord(name) == Strip(name)[Len(Strip(name))]

\* agent_players['Last Name'] = agent_players['Combined Names'].apply(lambda x: x.split()[-1]);
\* the column is held by the rank of the word in Python's string order
WithLastName(df) ==
    [i \in 1..Len(df) |->
        [name |-> df[i].name, total_cost |-> df[i].total_cost, total_pc |-> df[i].total_pc,
         delivery |-> df[i].delivery, LastName |-> Num(WordRank(LastWord(df[i].name)))]]

\* all_clients_sorted = agent_players.sort_values(by='Last Name')
all_clients_sorted(df, tie) == sort_values(WithLastName(df), "LastName", TRUE, tie)

\* the 'All Clients (Alphabetical by Last Name)' section, lines 606-609 and 648-651
render_all_clients(tie) ==
    /\ phase = "loaded"
    /\ player_df' = all_clients_sorted(player_df, tie)
    /\ cards' = display_player_section(player_df')
    /\ phase' = "all_clients"
    /\ UNCHANGED <<piba_data, columns, profileVars, boardVars, appVars>>

NextCards ==
    \/ render_player_section
    \/ \E tie \in TieOrders : render_all_clients(tie)

SpecCards == InitCards /\ [][NextCards]_vars

\* C3: a card of a player whose six-year value (Total PC) is zero has an
\* undefined percentage (None) and shows no 'Percent of Value Captured'
\* line: no finite number, no infinity, no NaN.
C3_ZeroValueCard ==
    phase = "rendered" =>
        \A i \in 1..Len(player_df) :
            player_df[i].total_pc = Num(0) =>
                /\ cards[i].vcp_value.k = "none"
                /\ ~cards[i].percent_line

\* C3 witness: rendered cards of zero-value players with a positive cost,
\* one of them with the cost set in code.
C3_ZeroValueRendered ==
    /\ phase = "rendered"
    /\ Len(cards) = 2
    /\ player_df[1].total_pc = Num(0) /\ player_df[1].total_cost = Num(10)
    /\ player_df[2].total_pc = Num(0) /\ cards[2].cost = Num(SvechnikovCost)
    /\ ~cards[1].percent_line

----------------------------------------------------------------------------
(* Frames as objects.  A function's local df is a second object when it is *)
(* made by copy(deep=True); an assignment to a column of df changes the    *)
(* object df names.  A heap maps the objects to their rows.                *)

\* pd.to_numeric(column, errors='coerce') over the season columns the frame has
Coerced(rows, cols) ==
    [i \in 1..Len(rows) |->
        [rows[i] EXCEPT !.cells = [col \in DOMAIN @ |->
            IF col \in cols THEN to_numeric(@[col]) ELSE @[col]]]]

\* df = agent_players: the same object under a second name
SameObject(obj) == obj

\* df = agent_players.copy(deep=True): a new object
copy_deep(obj) == "df"

\* the heap after compute_vcp_for_agent(arg): the function assigns nothing to df
FramesAfterVcp(rows) ==
    LET df == copy_deep("arg")
    IN  [o \in {"arg", df} |-> rows]

\* the heap after compute_agent_vcp_by_season(arg): lines 318-319 assign the
\* coerced season columns to df
FramesAfterBySeason(rows, cols) ==
    LET df == copy_deep("arg")
        heap == [o \in {"arg", df} |-> rows]
    IN  [heap EXCEPT ![df] = Coerced(rows, cols)]

----------------------------------------------------------------------------
(* compute_agent_vcp_by_season: per season, one row per agent with more    *)
(* than two player rows, with the agent's VCP in whole percent.  A missing *)
(* season column raises KeyError (there is no try around df[cost_col]).    *)

MinClientCount == 2

\* the agent names of the model in the order Python compares strings
NamesInOrder == <<
    <<" ", "David", " ", "Kaye">>, <<"Allain", " ", "Roy">>, <<"David", " ", "Kaye">>,
    <<"Don", " ", "Meehan">>, <<"Pat", " ", "Brisson">>, <<"Thomas", " ", "Lynn">> >>

\* groupby('Agent Name'): the groups in sorted key order, each with its sums and row count
\* the client count taken over the rows that have a value in the season
GroupAggSeasonRows(rows, g, s) ==
    [index |-> g, agent |-> rows[1].agent,
     total_cost |-> SeriesSum([i \in 1..Len(rows) |-> to_numeric(rows[i].cells[s.cost_col])]),
     total_pc |-> SeriesSum([i \in 1..Len(rows) |-> to_numeric(rows[i].cells[s.pc_col])]),
     client_count |-> Cardinality({i \in 1..Len(rows) : to_numeric(rows[i].cells[s.pc_col]).k = "num"})]

GroupAgg(rows, g, s) ==
    [index |-> g, agent |-> rows[1].agent,
     total_cost |-> SeriesSum([i \in 1..Len(rows) |-> to_numeric(rows[i].cells[s.cost_col])]),
     total_pc |-> SeriesSum([i \in 1..Len(rows) |-> to_numeric(rows[i].cells[s.pc_col])]),
     client_count |-> Len(rows)]

Groups(df, s, present) ==
    [g \in 1..Len(present) |-> GroupAgg(FilterRows(df, "agent", present[g]), g, s)]

GroupByAgent(df, s) ==
    Groups(df, s, SelectSeq(NamesInOrder, LAMBDA nm : \E i \in 1..Len(df) : df[i].agent = nm))

EnoughClientsAtLeast(g) == g.client_count >= MinClientCount

EnoughClients(g) == g.client_count > MinClientCount

\* the ratio cut to a whole percent instead of rounded
VcpColumnTruncated(grouped, any_number) ==
    [i \in 1..Len(grouped) |->
        [index |-> grouped[i].index, agent |-> grouped[i].agent,
         VCP |-> IF grouped[i].total_pc # 0
                 THEN Num((100 * grouped[i].total_cost) \div grouped[i].total_pc)
                 ELSE IF any_number THEN NaN ELSE None]]

\* the VCP column: the lambda gives a rounded number or None; a column that
\* holds a number somewhere is a float column, where None is stored as NaN
VcpColumn(grouped, any_number) ==
    [i \in 1..Len(grouped) |->
        [index |-> grouped[i].index, agent |-> grouped[i].agent,
         VCP |-> IF grouped[i].total_pc # 0
                 THEN Num(RoundDiv(100 * grouped[i].total_cost, grouped[i].total_pc))
                 ELSE IF any_number THEN NaN ELSE None]]

WithVcp(grouped) == VcpColumn(grouped, \E i \in 1..Len(grouped) : grouped[i].total_pc # 0)

SeasonTable(df, s) == WithVcp(SelectSeq(GroupByAgent(df, s), EnoughClients))

BySeasonRaises(cols) == \E i \in SeasonIdx : seasons[i].cost_col \notin cols \/ seasons[i].pc_col \notin cols

compute_agent_vcp_by_season(df, cols) ==
    IF BySeasonRaises(cols) THEN [raised |-> "KeyError", tables |-> [i \in SeasonIdx |-> <<>>]]
    ELSE [raised |-> "none", tables |-> [i \in SeasonIdx |-> SeasonTable(df, seasons[i])]]

----------------------------------------------------------------------------
(* leaderboard_page, lines 661-742: the overall Dollar Index table and the *)
(* five winners and losers of every season.                                *)

MinContracts == 10
HeadLimit == 90
ListLimit == 5

excluded_agents == {
    <<"Patrik", " ", "Aronsson">>, <<"Chris", " ", "McAlpine">>, <<"David", " ", "Kaye">>,
    <<"Thomas", " ", "Lynn">>, <<"Patrick", " ", "Sullivan">> }

ValidAgentsNoExclusion(agents) == {Strip(agents[i]) : i \in 1..Len(agents)}

\* set(agents_data['Agent Name'].dropna().str.strip()) - excluded_agents
valid_agents(agents) == {Strip(agents[i]) : i \in 1..Len(agents)} \ excluded_agents

\* df[df['Agent Name'].str.strip().isin(valid)]
KeepValid(df, valid) == SelectSeq(df, LAMBDA r : Strip(r.agent) \in valid)

\* a filter written as removal from the list being walked: the row after a
\* removed one is skipped
RECURSIVE RemoveWhileWalking(_)
RemoveWhileWalking(t) ==
    IF t = <<>> THEN t
    ELSE IF Head(t).CT.k = "num" /\ Head(t).CT.v >= MinContracts
         THEN <<Head(t)>> \o RemoveWhileWalking(Tail(t))
    ELSE IF Tail(t) = <<>> THEN <<>>
    ELSE <<Head(Tail(t))>> \o RemoveWhileWalking(Tail(Tail(t)))

\* overall_table[overall_table['CT'] >= 10]
min_contracts_filter(t) == SelectSeq(t, LAMBDA r : r.CT.k = "num" /\ r.CT.v >= MinContracts)

\* the filtered table sorted the other way round
OverallTableFilteredAscending(ranks, filter_on, tie) ==
    head(IF filter_on THEN min_contracts_filter(sort_values(ranks, "DollarIndex", TRUE, tie))
         ELSE sort_values(ranks, "DollarIndex", FALSE, tie), HeadLimit)

overall_table(ranks, filter_on, tie) ==
    LET by_index == sort_values(ranks, "DollarIndex", FALSE, tie)
    IN  head(IF filter_on THEN min_contracts_filter(by_index) ELSE by_index, HeadLimit)

\* a season's cards cannot be formatted when the VCP is None ('{:.0f}')
SeasonRaises(table) == table # <<>> /\ \A i \in 1..Len(table) : table[i].VCP.k = "none"

\* seasons are rendered latest first; rendering ends at the first that raises
SeasonRendered(tables, i) == \A j \in i..Len(seasons) : ~SeasonRaises(tables[j])

LeaderboardRender(ranks, by_season, filter_on, tie) ==
    [filter_option |-> filter_on,
     overall |-> overall_table(ranks, filter_on, tie),
     raised |-> IF by_season.raised # "none" THEN by_season.raised
                ELSE IF \E i \in SeasonIdx : SeasonRaises(by_season.tables[i]) THEN "TypeError"
                ELSE "none",
     lists |-> [i \in SeasonIdx |->
        IF by_season.raised # "none" \/ ~SeasonRendered(by_season.tables, i)
        THEN [winners |-> <<>>, losers |-> <<>>]
        ELSE [winners |-> head(sort_values(by_season.tables[i], "VCP", FALSE, tie), ListLimit),
              losers |-> head(sort_values(by_season.tables[i], "VCP", TRUE, tie), ListLimit)]]]

----------------------------------------------------------------------------
(* Leaderboard runs over sample worksheets.                                 *)

MaxRanks == 3
MaxClients == 3

ExclK == <<"David", " ", "Kaye">>
PaddedK == <<" ", "David", " ", "Kaye">>
ExclL == <<"Thomas", " ", "Lynn">>

\* (Dollar Index in hundredths, CT) of a sample rank row
RankPairs == { <<100, 9>>, <<120, 10>> }

MkRank(agent, pair) ==
    [index |-> 0, agent |-> agent, agency |-> AgencyOf(agent),
     DollarIndex |-> Num(pair[1]), CT |-> Num(pair[2])]

\* the parsed sheet numbers its rows (the DataFrame's index)
Indexed(rows) == [i \in 1..Len(rows) |-> [rows[i] EXCEPT !.index = i]]

RankRows == {MkRank(a, pair) : a \in {AgentA, AgentB, ExclK, PaddedK}, pair \in RankPairs}

\* a workbook with one agent more than the board shows: the agent with the
\* highest Dollar Index has 9 contracts tracked, every other agent has 10
LongAgent(i) == <<"Agent", " ", ToString(i)>>

LongAgents == [i \in 1..(HeadLimit + 1) |-> LongAgent(i)]

LongRanks ==
    [i \in 1..(HeadLimit + 1) |->
        MkRank(LongAgent(i), IF i = 1 THEN <<500, 9>> ELSE <<500 - i, 10>>)]

\* the 'Agents' sheet, with and without a row for the second agent
AgentsSheets == { <<AgentA, AgentB, ExclK, ExclL>>, <<AgentA, ExclK>> }

Rows(n, row) == [i \in 1..n |-> row]

\* n rows of one agent: the first of one kind, the others of another
Block(agent, n, kind1, kind2) ==
    IF n = 0 THEN <<>>
    ELSE <<MkRow(agent, kind1[1], kind1[2])>> \o Rows(n - 1, MkRow(agent, kind2[1], kind2[2]))

SamplePiba ==
    Block(AgentA, 3, <<<<Num(10), Num(12)>>, SeasonIdx>>, <<<<Num(5), Num(4)>>, SeasonIdx>>)
    \o Block(ExclK, 3, <<<<Num(5), Num(4)>>, SeasonIdx>>, <<<<Num(5), Num(4)>>, SeasonIdx>>)
    \o Block(AgentB, 3, <<<<Num(5), Num(4)>>, SeasonIdx>>, <<<<Num(10), Num(12)>>, SeasonIdx>>)
    \o Block(ExclL, 4, <<<<Num(10), Num(12)>>, SeasonIdx>>, <<<<Num(10), Num(12)>>, SeasonIdx>>)

SampleRanks == << MkRank(AgentA, <<120, 10>>), MkRank(AgentB, <<100, 10>>), MkRank(ExclK, <<100, 9>>) >>

\* the kinds of rows of a sample block: (cost, PC) and the seasons with data
BlockKinds == {
    << <<Num(10), Num(12)>>, SeasonIdx >>, << <<Num(5), Num(4)>>, {1, 2, 3} >>,
    << <<Num(5), Num(0)>>, SeasonIdx >>, << <<Text, Num(4)>>, SeasonIdx >>,
    << <<Num(66), Num(79)>>, SeasonIdx >> }

\* the kinds of the rows after the first
TailKinds == { << <<Num(10), Num(12)>>, SeasonIdx >>, << <<Num(5), Num(0)>>, SeasonIdx >>,
               << <<Num(5), Num(4)>>, {1, 2, 3} >> }

AgentBlocks(agent) ==
    {Block(agent, n, k1, k2) : n \in 0..MaxClients, k1 \in BlockKinds, k2 \in TailKinds}

ExcludedBlocks ==
    { <<>>, Block(ExclK, 3, <<<<Num(10), Num(12)>>, SeasonIdx>>, <<<<Num(10), Num(12)>>, SeasonIdx>>),
      Block(PaddedK, 3, <<<<Num(5), Num(4)>>, SeasonIdx>>, <<<<Num(5), Num(4)>>, SeasonIdx>>) }

InitBoard ==
    /\ phase = "loaded"
    /\ piba_data = SamplePiba
    /\ columns = SeasonColumns
    /\ \/ /\ agents_data \in AgentsSheets
          /\ \E rows \in SeqsUpTo(RankRows, MaxRanks) : ranks_data = Indexed(rows)
       \/ /\ agents_data = LongAgents
          /\ ranks_data = Indexed(LongRanks)
    /\ tie_order \in TieOrders
    /\ agent_vcp_by_season = NoTables
    /\ board = NoBoard
    /\ ProfileIdle
    /\ CardIdle
    /\ AppIdle

InitSeason ==
    /\ phase = "loaded"
    /\ \E a \in AgentBlocks(AgentA), b \in AgentBlocks(AgentB), k \in ExcludedBlocks :
          piba_data = a \o k \o b
    /\ columns \in {SeasonColumns, SeasonColumns \ {"COST 19-20"}}
    /\ agents_data = <<AgentA, AgentB, ExclK>>
    /\ ranks_data = Indexed(SampleRanks)
    /\ tie_order \in TieOrders
    /\ agent_vcp_by_season = NoTables
    /\ board = NoBoard
    /\ ProfileIdle
    /\ CardIdle
    /\ AppIdle

leaderboard_page(filter_on) ==
    /\ phase \in {"loaded", "board"}
    /\ agent_vcp_by_season' =
          compute_agent_vcp_by_season(KeepValid(piba_data, valid_agents(agents_data)), columns)
    /\ board' = LeaderboardRender(KeepValid(ranks_data, valid_agents(agents_data)),
                                  agent_vcp_by_season', filter_on, tie_order)
    /\ phase' = "board"
    /\ UNCHANGED <<piba_data, columns, agents_data, ranks_data, tie_order, profileVars, cardVars, appVars>>

NextBoard == \E filter_on \in BOOLEAN : leaderboard_page(filter_on)

SpecBoard == InitBoard /\ [][NextBoard]_vars

NextSeason ==
    \/ \E filter_on \in BOOLEAN : leaderboard_page(filter_on)
    \/ \E agent \in {AgentA, AgentB} : agent_dashboard_vcp(agent)

SpecSeason == InitSeason /\ [][NextSeason]_vars

----------------------------------------------------------------------------
(* Properties of the leaderboard.                                           *)

\* the agent names on the cards of the rendered leaderboard
ShownNames ==
    {board.overall[i].agent : i \in 1..Len(board.overall)}
    \cup UNION {{board.lists[s].winners[i].agent : i \in 1..Len(board.lists[s].winners)} : s \in SeasonIdx}
    \cup UNION {{board.lists[s].losers[i].agent : i \in 1..Len(board.lists[s].losers)} : s \in SeasonIdx}

\* the player rows compute_agent_vcp_by_season is called with
LeaderboardPlayers == SelectSeq(piba_data, LAMBDA r : Strip(r.agent) \in valid_agents(agents_data))

ClientRows(agent) == Cardinality({i \in 1..Len(LeaderboardPlayers) : LeaderboardPlayers[i].agent = agent})

TableAgents(s) == {agent_vcp_by_season.tables[s][i].agent : i \in 1..Len(agent_vcp_by_season.tables[s])}

\* C4: a season whose cost or value column is missing from the player table
\* is reported as unavailable and nothing is raised, in the profile
\* (compute_vcp_for_agent) and on the leaderboard (compute_agent_vcp_by_season).
C4_MissingColumnUnavailable ==
    /\ phase = "profiled" =>
          \A i \in SeasonIdx : ~SeasonHasColumns(i) => vcp_for_agent[seasons[i].season] = None
    /\ phase = "board" =>
          (columns # SeasonColumns => agent_vcp_by_season.raised = "none")

\* C6: no card of the leaderboard, in the overall table or in a season's
\* winners and losers, carries a name of the exclusion list (also not with
\* white space around it).
C6_ExcludedNeverShown ==
    phase = "board" => \A n \in ShownNames : Strip(n) \notin excluded_agents

\* C6 witness: excluded names, plain and padded, are in the rank table and
\* the player table, and the overall table and a season list were rendered.
C6_ExcludedInSheets ==
    /\ phase = "board"
    /\ \E i \in 1..Len(ranks_data) : ranks_data[i].agent = <<"David", " ", "Kaye">>
    /\ \E i \in 1..Len(ranks_data) : ranks_data[i].agent = <<" ", "David", " ", "Kaye">>
    /\ \E i \in 1..Len(piba_data) : piba_data[i].agent = <<"David", " ", "Kaye">>
    /\ board.overall # <<>>
    /\ board.lists[1].winners # <<>>

ValueGE(a, b) == a.k = "num" /\ b.k = "num" /\ a.v >= b.v

\* C7: every leaderboard is monotonic in its sort key: non-increasing in
\* the overall Dollar Index table and in a season's winners, non-decreasing
\* in a season's losers, for every pair of adjacent cards.
C7_MonotonicLists ==
    phase = "board" =>
        /\ \A i \in 1..(Len(board.overall) - 1) :
              ValueGE(board.overall[i].DollarIndex, board.overall[i + 1].DollarIndex)
        /\ \A s \in SeasonIdx :
              /\ \A i \in 1..(Len(board.lists[s].winners) - 1) :
                    ValueGE(board.lists[s].winners[i].VCP, board.lists[s].winners[i + 1].VCP)
              /\ \A i \in 1..(Len(board.lists[s].losers) - 1) :
                    ValueGE(board.lists[s].losers[i + 1].VCP, board.lists[s].losers[i].VCP)

\* C8: cards with equal sort keys keep their source row order, in the
\* overall table and in the season lists.
C8_TiesKeepSourceOrder ==
    phase = "board" =>
        /\ \A i \in 1..(Len(board.overall) - 1) :
              board.overall[i].DollarIndex = board.overall[i + 1].DollarIndex
                  => board.overall[i].index < board.overall[i + 1].index
        /\ \A s \in SeasonIdx :
              /\ \A i \in 1..(Len(board.lists[s].winners) - 1) :
                    board.lists[s].winners[i].VCP = board.lists[s].winners[i + 1].VCP
                        => board.lists[s].winners[i].index < board.lists[s].winners[i + 1].index
              /\ \A i \in 1..(Len(board.lists[s].losers) - 1) :
                    board.lists[s].losers[i].VCP = board.lists[s].losers[i + 1].VCP
                        => board.lists[s].losers[i].index < board.lists[s].losers[i + 1].index

\* C9: a season's result table of compute_agent_vcp_by_season holds exactly
\* the agents with more than 2 rows in the player table it was given.
C9_MoreThanTwoClients ==
    (phase = "board" /\ agent_vcp_by_season.raised = "none") =>
        \A s \in SeasonIdx :
            \A agent \in {LeaderboardPlayers[i].agent : i \in 1..Len(LeaderboardPlayers)} \cup TableAgents(s) :
                (agent \in TableAgents(s)) <=> (ClientRows(agent) > 2)

\* C9 witness: one agent has exactly 2 rows and is absent, another has 3 and
\* is in the table.
C9_TwoAndThree ==
    /\ phase = "board"
    /\ agent_vcp_by_season.raised = "none"
    /\ ClientRows(<<"Allain", " ", "Roy">>) = 2
    /\ ClientRows(<<"Pat", " ", "Brisson">>) = 3
    /\ TableAgents(1) = { <<"Pat", " ", "Brisson">> }

\* C10: the minimum-contracts filter is idempotent: filtering the sorted
\* rank table twice gives the rows of filtering it once, in the same order,
\* and filtering the displayed filtered table again changes nothing.
C10_FilterIdempotent ==
    LET t == sort_values(KeepValid(ranks_data, valid_agents(agents_data)), "DollarIndex", FALSE, tie_order)
    IN  /\ min_contracts_filter(min_contracts_filter(t)) = min_contracts_filter(t)
        /\ (phase = "board" /\ board.filter_option) => min_contracts_filter(board.overall) = board.overall

\* C10 witness: a filtered leaderboard that dropped a row and kept two.
C10_FilterDropped ==
    /\ phase = "board"
    /\ board.filter_option
    /\ Len(board.overall) = 2
    /\ \E i \in 1..Len(ranks_data) :
          /\ ranks_data[i].agent = <<"Allain", " ", "Roy">>
          /\ ranks_data[i].CT = Num(9)
          /\ i < Len(ranks_data)

----------------------------------------------------------------------------
(* Headshots.  get_headshot_path (lines 212-240) answers from the manual   *)
(* overrides, else from the files of the headshots_cache directory.  A     *)
(* file name is a sequence of tokens: words, "_" and the extension.        *)

\* manual_photo_overrides: some of its 85 entries, keyed as written in the
\* source; the value stands for the entry's URL
OverrideKeys == {
    <<"cal", " ", "foote">>, <<"carter", " ", "hart">>, <<"dillon", " ", "dube">>,
    <<"michael", " ", "mcLeod">>, <<"alex", " ", "formenton">>, <<"reid", " ", "duke">> }

manual_photo_overrides == [k \in OverrideKeys |-> <<"https://">> \o k]

ZipFile == <<"NHL.Headshots", ".zip">>

FootePng == <<"cal", "_", "foote", "_", "1", ".png">>
McDavidPng == <<"connor", "_", "mcdavid", "_", "2", ".png">>
McDavidAwayPng == <<"connor", "_", "mcdavid", "_", "2", "_", "away", ".png">>
McLeodPng == <<"Michael", "_", "McLeod", "_", "3", ".PNG">>
BrownPng == <<"connor", "_", "brown", "_", "4", ".png">>

\* the images of the sample archive
ArchiveFiles == {FootePng, McDavidPng, McDavidAwayPng, McLeodPng, BrownPng}

\* player names looked up
HeadshotNames == {
    <<"Cal", " ", "Foote">>, <<" ", "Cal", " ", "Foote">>, <<"Connor", " ", "McDavid">>,
    <<"Conor", " ", "McDavid">>, <<"Michael", " ", "McLeod">>, <<"Wayne", " ", "Gretzky">> }

\* name.lower().replace(" ", "_")
Formatted(name) == [i \in 1..Len(name) |-> IF name[i] = " " THEN "_" ELSE LowerTok(name[i])]

StartsWith(s, prefix) == Len(prefix) <= Len(s) /\ SubSeq(s, 1, Len(prefix)) = prefix

\* f.lower().endswith(".png") and "_away" not in f.lower()
IsPng(f) == f # <<>> /\ LowerTok(f[Len(f)]) = ".png"
HasAway(f) == \E i \in 1..(Len(f) - 1) : f[i] = "_" /\ LowerTok(f[i + 1]) = "away"

possible_files(files) == {f \in files : IsPng(f) /\ ~HasAway(f)}

\* "_".join(f.lower().replace(".png", "").split("_")[:2]) for a file with two parts or more
HasTwoParts(f) == Len(f) >= 4 /\ f[2] = "_"
extracted_name(f) == <<LowerTok(f[1]), "_", LowerTok(f[3])>>

\* names_dict: extracted name -> file
names_dict_keys(files) == {extracted_name(f) : f \in {g \in possible_files(files) : HasTwoParts(g)}}
names_dict(files, key) == CHOOSE f \in possible_files(files) : HasTwoParts(f) /\ extracted_name(f) = key

\* difflib.SequenceMatcher(None, key, word).ratio() in thousandths, for the
\* names and files of the model
Ratio(word, key) ==
    IF word = key THEN 1000
    ELSE IF word = <<"_", "cal", "_", "foote">> /\ key = <<"cal", "_", "foote">> THEN 947
    ELSE IF word = <<"conor", "_", "mcdavid">> /\ key = <<"connor", "_", "mcdavid">> THEN 963
    ELSE IF word = <<"connor", "_", "mcdavid">> /\ key = <<"connor", "_", "brown">> THEN 538
    ELSE IF word = <<"conor", "_", "mcdavid">> /\ key = <<"connor", "_", "brown">> THEN 480
    ELSE 400

Cutoff == 750

\* difflib.get_close_matches(word, keys, n=1, cutoff=0.75): the keys that
\* score at least the cutoff and no less than any other key
close_matches(word, keys) ==
    {k \in keys : Ratio(word, k) >= Cutoff /\ \A k2 \in keys : Ratio(word, k2) <= Ratio(word, k)}

ExactFiles(formatted_name, files) ==
    {f \in possible_files(files) : StartsWith(Lower(f), formatted_name \o <<"_">>)}

\* the local file is looked for before the overrides
GetHeadshotLocalFirst(player_name, dir, files) ==
    LET name_lower == Strip(Lower(player_name))
        formatted_name == Formatted(correct_player_name(player_name))
    IN  IF dir \in {"empty", "invalid", "extracted"} /\ ExactFiles(formatted_name, files) # {}
        THEN [k |-> "path", v |-> CHOOSE f \in ExactFiles(formatted_name, files) : TRUE]
        ELSE IF name_lower \in DOMAIN manual_photo_overrides
        THEN [k |-> "url", v |-> manual_photo_overrides[name_lower]]
        ELSE NoImage

\* get_headshot_path.  os.listdir raises on an unreadable directory and the
\* exception is swallowed.  The sample files give a name at most one
\* exact-prefix file and one file per extracted name, so the order in which
\* os.listdir returns the files does not show.
get_headshot_path(player_name, dir, files) ==
    LET name_lower == Strip(Lower(player_name))
        formatted_name == Formatted(correct_player_name(player_name))
        close == close_matches(formatted_name, names_dict_keys(files))
    IN  IF name_lower \in DOMAIN manual_photo_overrides
        THEN [k |-> "url", v |-> manual_photo_overrides[name_lower]]
        ELSE IF dir \in {"absent", "unreadable"} THEN NoImage
        ELSE IF ExactFiles(formatted_name, files) # {}
        THEN [k |-> "path", v |-> CHOOSE f \in ExactFiles(formatted_name, files) : TRUE]
        ELSE IF close # {}
        THEN [k |-> "path", v |-> names_dict(files, CHOOSE k \in close : TRUE)]
        ELSE NoImage

InitHeadshots ==
    /\ phase = "loaded"
    /\ piba_data = <<>>
    /\ columns = SeasonColumns
    /\ ProfileIdle
    /\ CardIdle
    /\ BoardIdle
    /\ headshots_dir \in {"absent", "extracted", "unreadable"}
    /\ headshot_files \in (IF headshots_dir = "absent" THEN {{}}
                           ELSE {fs \cup {ZipFile} : fs \in SUBSET ArchiveFiles})
    /\ images = NoImages
    /\ cache = NoCache
    /\ run = NoRun

\* one card's image lookup (line 368)
lookup_headshot(player_name) ==
    /\ images' = [n \in {player_name} |-> get_headshot_path(n, headshots_dir, headshot_files)]
    /\ UNCHANGED <<phase, piba_data, columns, profileVars, cardVars, boardVars,
                   headshots_dir, headshot_files, cache, run>>

NextHeadshots == \E player_name \in HeadshotNames : lookup_headshot(player_name)

SpecHeadshots == InitHeadshots /\ [][NextHeadshots]_vars

----------------------------------------------------------------------------
(* The application: every interaction reruns the script, which renders the *)
(* page chosen in the sidebar (lines 994-1021).  The workbook and the      *)
(* headshot archive are fetched over HTTP; the status of a fetch and the   *)
(* content served are the environment's choice.                            *)

TtlSeconds == 0

StatusCodes == {200, 404}

\* the workbook served: one whose rank sheet matches its agent sheet, one
\* whose rank sheet names an agent the agent sheet lacks
Workbooks == {"consistent", "drifted"}

WorkbookAgents(wb) == IF wb = "consistent" THEN <<AgentA, AgentB>> ELSE <<AgentA>>
WorkbookRankNames(wb) ==
    IF wb = "consistent" THEN <<AgentA, AgentB, <<"Grand", " ", "Total">> >> ELSE <<AgentA, AgentB>>

\* st.cache_data(ttl=...): an entry is served while its age, which is at
\* least 0, is below the ttl
CacheHit(entry) == entry.has /\ 0 < TtlSeconds

NewRun(page) == [NoRun EXCEPT !.page = page]

\* load_data() and load_agencies_data(): the run after the call, given the
\* cache entry, the HTTP status and the workbook served
Loaded(r, entry, status) ==
    IF CacheHit(entry) THEN r
    ELSE [r EXCEPT !.fetches = @ + 1,
                   !.failed = @ \/ status # 200,
                   !.errors = @ + (IF status # 200 THEN 1 ELSE 0)]

LoadValue(entry, status, wb) ==
    IF CacheHit(entry) THEN entry.value
    ELSE IF status # 200 THEN "none" ELSE wb

\* extract_headshots(): downloads and extracts only when the directory is
\* absent.  The directory is made first; a download that succeeds is written
\* into it; an archive that is no zip file leaves the directory with that file.
\* a directory without extracted images is filled again
HeadshotsRetried(dir, zstatus, zvalid) ==
    IF dir = "extracted" THEN dir
    ELSE IF zstatus # 200 THEN "empty"
    ELSE IF zvalid THEN "extracted" ELSE "invalid"

HeadshotsAfter(dir, zstatus, zvalid) ==
    IF dir # "absent" THEN dir
    ELSE IF zstatus # 200 THEN "empty"
    ELSE IF zvalid THEN "extracted" ELSE "invalid"

FilesAfter(dir, files, zstatus, zvalid) ==
    IF dir # "absent" THEN files
    ELSE IF zstatus # 200 THEN {}
    ELSE IF zvalid THEN ArchiveFiles \cup {ZipFile} ELSE {ZipFile}

\* the BadZipFile is not caught
ExtractedNoCatch(r, dir, zstatus, zvalid) ==
    IF dir # "absent" THEN r
    ELSE [r EXCEPT !.downloads = @ + 1,
                   !.raised = IF zstatus = 200 /\ ~zvalid THEN "BadZipFile" ELSE @]

Extracted(r, dir, zstatus, zvalid) ==
    IF dir # "absent" THEN r
    ELSE [r EXCEPT !.downloads = @ + 1,
                   !.errors = @ + (IF zstatus = 200 /\ ~zvalid THEN 1 ELSE 0)]

Render(r, elements) == [r EXCEPT !.content = @ \o elements]
Raise(r, exception) == [r EXCEPT !.raised = exception]
Stop(r) == [r EXCEPT !.stopped = TRUE]
Error(r) == [r EXCEPT !.errors = @ + 1]

\* the names offered by the agent selector
agent_names(wb) ==
    SelectSeq(WorkbookRankNames(wb),
              LAMBDA nm : nm \notin {<<>>, <<"(blank)">>, <<"Grand", " ", "Total">>})

HasAgentRow(wb, agent) == \E i \in 1..Len(WorkbookAgents(wb)) : WorkbookAgents(wb)[i] = agent

\* the 'Combined Names' of the player rows shown on a profile's cards
CardPlayers == { <<"Cal", " ", "Foote">>, <<"Connor", " ", "McDavid">>, <<"Michael", " ", "McLeod">> }

\* the cards' images: display_player_section asks get_headshot_path for every
\* row, in a run that got as far as the cards
CardImages(r, old, dir, files) ==
    IF r.stopped \/ r.raised # "none" THEN old
    ELSE [n \in CardPlayers |-> get_headshot_path(n, dir, files)]

home_page ==
    /\ run' = Render(NewRun("Home"), <<"title">>)
    /\ UNCHANGED <<phase, piba_data, columns, profileVars, cardVars, boardVars, headshots_dir, headshot_files, images, cache>>

project_definitions ==
    /\ run' = Render(NewRun("Project Definitions"), <<"title", "definitions">>)
    /\ UNCHANGED <<phase, piba_data, columns, profileVars, cardVars, boardVars, headshots_dir, headshot_files, images, cache>>

AgentDashboardRun(r, value, pick) ==
    IF value = "none" THEN Stop(r)
    ELSE IF pick > Len(agent_names(value)) \/ ~HasAgentRow(value, agent_names(value)[pick])
         THEN Raise(Render(r, <<"title", "selectbox">>), "IndexError")
    ELSE Render(r, <<"title", "selectbox", "header", "financial", "rankings", "chart",
                     "top_clients", "wins", "losses", "all_clients">>)

agent_dashboard(status, wb, zstatus, zvalid, pick) ==
    /\ cache' = [cache EXCEPT !["load_data"] =
                    [has |-> TRUE, value |-> LoadValue(cache["load_data"], status, wb)]]
    /\ headshots_dir' = HeadshotsAfter(headshots_dir, zstatus, zvalid)
    /\ headshot_files' = FilesAfter(headshots_dir, headshot_files, zstatus, zvalid)
    /\ run' = AgentDashboardRun(
                  Extracted(Loaded(NewRun("Agent Dashboard"), cache["load_data"], status),
                            headshots_dir, zstatus, zvalid),
                  cache'["load_data"].value, pick)
    /\ images' = CardImages(run', images, headshots_dir', headshot_files')
    /\ UNCHANGED <<phase, piba_data, columns, profileVars, cardVars, boardVars>>

AgencyDashboardRun(r, agencies, value) ==
    IF agencies = "none" \/ value = "none" THEN Stop(Error(r))
    ELSE Render(r, <<"title", "selectbox", "header", "financial", "rankings", "chart",
                     "top_clients", "wins", "losses", "all_clients">>)

agency_dashboard(status1, status2, wb) ==
    /\ cache' = [cache EXCEPT
                    !["load_agencies_data"] =
                        [has |-> TRUE, value |-> LoadValue(cache["load_agencies_data"], status1, wb)],
                    !["load_data"] =
                        [has |-> TRUE, value |-> LoadValue(cache["load_data"], status2, wb)]]
    /\ run' = AgencyDashboardRun(
                  Loaded(Loaded(NewRun("Agency Dashboard"), cache["load_agencies_data"], status1),
                         cache["load_data"], status2),
                  cache'["load_agencies_data"].value, cache'["load_data"].value)
    /\ images' = CardImages(run', images, headshots_dir, headshot_files)
    /\ UNCHANGED <<phase, piba_data, columns, profileVars, cardVars, boardVars, headshots_dir, headshot_files>>

LeaderboardRun(r, value) ==
    IF value = "none" THEN Stop(Error(r))
    ELSE Render(r, <<"subheader", "write", "checkbox", "overall_table", "seasons">>)

leaderboard_load(status, wb) ==
    /\ cache' = [cache EXCEPT !["load_data"] =
                    [has |-> TRUE, value |-> LoadValue(cache["load_data"], status, wb)]]
    /\ run' = LeaderboardRun(
                  Loaded(Render(NewRun("Leaderboard"), <<"title">>), cache["load_data"], status),
                  cache'["load_data"].value)
    /\ UNCHANGED <<phase, piba_data, columns, profileVars, cardVars, boardVars, headshots_dir, headshot_files, images>>

\* the three pages that use ranks_data without testing it for None
UncheckedRun(r, value, rest) ==
    IF value = "none" THEN Raise(r, "TypeError") ELSE Render(r, rest)

second_contracts_leaderboard_page(status, wb) ==
    /\ cache' = [cache EXCEPT !["load_data"] =
                    [has |-> TRUE, value |-> LoadValue(cache["load_data"], status, wb)]]
    /\ run' = UncheckedRun(
                  Loaded(Render(NewRun("Second Contracts Leaderboard"), <<"title", "subheader", "write">>),
                         cache["load_data"], status),
                  cache'["load_data"].value, <<"cards">>)
    /\ UNCHANGED <<phase, piba_data, columns, profileVars, cardVars, boardVars, headshots_dir, headshot_files, images>>

overall_visualizations(status, wb) ==
    /\ cache' = [cache EXCEPT !["load_data"] =
                    [has |-> TRUE, value |-> LoadValue(cache["load_data"], status, wb)]]
    /\ run' = UncheckedRun(
                  Loaded(Render(NewRun("Classifications"),
                                <<"title", "subheader", "write", "agent_lists",
                                  "agency_subheader", "agency_lists">>),
                         cache["load_data"], status),
                  cache'["load_data"].value, <<"scatter">>)
    /\ UNCHANGED <<phase, piba_data, columns, profileVars, cardVars, boardVars, headshots_dir, headshot_files, images>>

arbitration_page(status, wb) ==
    /\ cache' = [cache EXCEPT !["load_data"] =
                    [has |-> TRUE, value |-> LoadValue(cache["load_data"], status, wb)]]
    /\ run' = UncheckedRun(
                  Loaded(Render(NewRun("Arbitration"), <<"title", "subheader", "write">>),
                         cache["load_data"], status),
                  cache'["load_data"].value, <<"checkbox", "heading", "cards">>)
    /\ UNCHANGED <<phase, piba_data, columns, profileVars, cardVars, boardVars, headshots_dir, headshot_files, images>>

Init ==
    /\ phase = "app"
    /\ piba_data = <<>>
    /\ columns = SeasonColumns
    /\ ProfileIdle
    /\ CardIdle
    /\ BoardIdle
    /\ AppIdle

Next ==
    \/ home_page
    \/ project_definitions
    \/ \E status \in StatusCodes, wb \in Workbooks, zstatus \in StatusCodes, zvalid \in BOOLEAN, pick \in 1..2 :
          agent_dashboard(status, wb, zstatus, zvalid, pick)
    \/ \E status1 \in StatusCodes, status2 \in StatusCodes, wb \in Workbooks :
          agency_dashboard(status1, status2, wb)
    \/ \E status \in StatusCodes, wb \in Workbooks : leaderboard_load(status, wb)
    \/ \E status \in StatusCodes, wb \in Workbooks : second_contracts_leaderboard_page(status, wb)
    \/ \E status \in StatusCodes, wb \in Workbooks : overall_visualizations(status, wb)
    \/ \E status \in StatusCodes, wb \in Workbooks : arbitration_page(status, wb)

Spec == Init /\ [][Next]_vars

\* C5: a run whose workbook fetch returned a non-success status reports the
\* error and halts: it shows none of the page's content, raises nothing,
\* and makes no fetch or download beyond the failed one.
C5_FailedFetchHalts ==
    run.failed =>
        /\ run.errors >= 1
        /\ run.stopped
        /\ run.content = <<>>
        /\ run.raised = "none"
        /\ run.fetches = 1
        /\ run.downloads = 0

----------------------------------------------------------------------------
(* Algebraic properties of the season percentage.                           *)

ScaleFactors == {2, 3}

\* every cost and value of the rows multiplied by f; cells that hold no
\* number stay as they are
Scaled(df, f) ==
    [i \in 1..Len(df) |->
        [df[i] EXCEPT !.cells = [col \in DOMAIN @ |->
            IF @[col].k = "num" THEN Num(f * @[col].v) ELSE @[col]]]]

\* C11: for the chosen rows, in every season with a positive value total,
\* compute_vcp_for_agent gives the same result on the rows with every cost
\* and value multiplied by 2, or by 3.
C11_ScaleInvariant ==
    phase = "profiled" =>
        \A f \in ScaleFactors :
            LET scaled == compute_vcp_for_agent(Scaled(agent_players, f), columns)
            IN  \A i \in SeasonIdx :
                    SeasonValue(i) > 0 => scaled[seasons[i].season] = vcp_for_agent[seasons[i].season]

\* C11 witness: a profile with a season where cost and value totals are
\* positive and differ, so that doubling changes both sums and the premium.
C11_ScaledProfile ==
    /\ phase = "profiled"
    /\ \E i \in SeasonIdx :
        /\ SeasonHasColumns(i)
        /\ SeasonValue(i) = 16
        /\ SeasonCost(i) = 15
        /\ TotalOf(Scaled(agent_players, 2), seasons[i].pc_col, Len(agent_players)) = 32
        /\ vcp_for_agent[seasons[i].season] = Num(9375)

\* the rows with every cost and value cell that holds no number replaced by 0
Zeroed(df) ==
    [i \in 1..Len(df) |->
        [df[i] EXCEPT !.cells = [col \in DOMAIN @ |->
            IF @[col].k = "num" THEN @[col] ELSE Num(0)]]]

HasCell(df, kind) == \E i \in 1..Len(df) : \E col \in SeasonColumns : df[i].cells[col].k = kind

\* C12: in the sums a missing or non-numeric entry counts as zero:
\* compute_vcp_for_agent on the chosen rows, and compute_agent_vcp_by_season
\* on the leaderboard's rows, give what they give on the same rows with each
\* such entry replaced by 0.
C12_MissingCountsAsZero ==
    /\ phase = "profiled" =>
          compute_vcp_for_agent(Zeroed(agent_players), columns) = vcp_for_agent
    /\ phase = "board" =>
          compute_agent_vcp_by_season(Zeroed(LeaderboardPlayers), columns) = agent_vcp_by_season

\* C12 witness: a leaderboard computed from rows with an empty and a text
\* cell, with a numeric VCP in the first season's table.
C12_BoardWithGaps ==
    /\ phase = "board"
    /\ agent_vcp_by_season.raised = "none"
    /\ HasCell(LeaderboardPlayers, "nan")
    /\ HasCell(LeaderboardPlayers, "text")
    /\ \E i \in 1..Len(agent_vcp_by_season.tables[1]) :
          /\ agent_vcp_by_season.tables[1][i].VCP.k = "num"
          /\ HasCell(FilterRows(LeaderboardPlayers, "agent", agent_vcp_by_season.tables[1][i].agent), "text")

----------------------------------------------------------------------------
(* Properties of the player cards.                                          *)

\* C13: a card whose six-year value (Total PC) is a non-zero number and whose
\* six-year cost is a number shows a percentage that is the ratio of the two
\* amounts printed on the card: vcp_value = 100 * cost / value exactly, and
\* the printed percent is that ratio rounded to a whole number.
C13_CardRatio ==
    phase = "rendered" =>
        \A i \in 1..Len(cards) :
            (cards[i].value.k = "num" /\ cards[i].value.v # 0 /\ cards[i].cost.k = "num") =>
                /\ cards[i].percent_line
                /\ cards[i].vcp_value.k = "num"
                /\ cards[i].vcp_value.n * cards[i].value.v = 100 * cards[i].cost.v * cards[i].vcp_value.d
                /\ cards[i].percent = Num(RoundDiv(100 * cards[i].cost.v, cards[i].value.v))

\* C13 witness: a card whose cost is set in code (23 against a sheet cost of
\* 10) with value 12 shows 192%, next to a card from sheet amounts (83%).
C13_CardsWithValue ==
    /\ phase = "rendered"
    /\ Len(cards) = 2
    /\ player_df[1].total_cost = Num(10) /\ cards[1].cost = Num(SvechnikovCost)
    /\ cards[1].value = Num(12) /\ cards[1].percent = Num(192)
    /\ cards[2].cost = Num(10) /\ cards[2].value = Num(12) /\ cards[2].percent = Num(83)

----------------------------------------------------------------------------
(* The season percentage against 100%.                                      *)

\* C14 (as stated): with a positive value total the result is above 100
\* exactly when the cost total exceeds the value total and below 100 exactly
\* when it is less.
C14_AboveExactlyWhenCostExceeds ==
    phase = "profiled" =>
        \A i \in SeasonIdx :
            (SeasonHasColumns(i) /\ SeasonValue(i) > 0) =>
                LET r == vcp_for_agent[seasons[i].season]
                IN  /\ r.k = "num"
                    /\ (r.v > 10000) <=> (SeasonCost(i) > SeasonValue(i))
                    /\ (r.v < 10000) <=> (SeasonCost(i) < SeasonValue(i))

\* C14 (amended): with a positive value total, a result above 100 means the
\* cost total exceeds the value total and a result below 100 means it is
\* less; a cost above the value gives at least 100, a cost below it at most
\* 100 (the two-decimal rounding can return exactly 100.0 for totals that
\* differ); and the result is never below the exact ratio by more than the
\* rounding, however large the ratio: there is no cap.
C14_NotCapped ==
    phase = "profiled" =>
        \A i \in SeasonIdx :
            (SeasonHasColumns(i) /\ SeasonValue(i) > 0) =>
                LET r == vcp_for_agent[seasons[i].season]
                IN  /\ r.k = "num"
                    /\ (r.v > 10000) => (SeasonCost(i) > SeasonValue(i))
                    /\ (r.v < 10000) => (SeasonCost(i) < SeasonValue(i))
                    /\ (SeasonCost(i) > SeasonValue(i)) => r.v >= 10000
                    /\ (SeasonCost(i) < SeasonValue(i)) => r.v <= 10000
                    /\ 2 * (10000 * SeasonCost(i) - r.v * SeasonValue(i)) <= SeasonValue(i)

\* C14 witness: a profile with 125% in a season (cost 5 against value 4).
C14_Above100 ==
    /\ phase = "profiled"
    /\ \E i \in SeasonIdx :
        /\ SeasonHasColumns(i) /\ SeasonCost(i) = 5 /\ SeasonValue(i) = 4
        /\ vcp_for_agent[seasons[i].season] = Num(12500)

----------------------------------------------------------------------------
(* Name corrections on the cards.                                           *)

\* C15: a card of a player whose name is a key of the corrections table
\* shows the table's corrected name for that key, and a card of any other
\* sample name shows the name as it is in the sheet.
C15_CorrectionsApplied ==
    phase = "rendered" =>
        \A i \in 1..Len(cards) :
            IF player_df[i].name \in DOMAIN corrections
            THEN cards[i].display_name = corrections[player_df[i].name]
            ELSE cards[i].display_name = player_df[i].name

----------------------------------------------------------------------------
(* The headshot archive.                                                    *)

HasOverride(name) == Strip(Lower(name)) \in DOMAIN manual_photo_overrides

\* C16: an archive that is no valid zip file is reported by the run that
\* downloaded it, as one error beside that of a failed workbook fetch, and
\* nothing is raised for it; from then on the lookup of every player without
\* a manual override gives no image, so the card shows the placeholder.
C16_InvalidArchive ==
    /\ run.raised # "BadZipFile"
    /\ headshots_dir = "invalid" =>
          /\ run.downloads = 1 => run.errors = 1 + (IF run.failed THEN 1 ELSE 0)
          /\ headshot_files = {ZipFile}
          /\ \A n \in DOMAIN images : ~HasOverride(n) => images[n] = NoImage

\* C16 witness: a later run, which downloads nothing, renders the cards of a
\* profile from the directory the invalid archive left behind.
C16_CardsAfterInvalidArchive ==
    /\ headshots_dir = "invalid"
    /\ run.page = "Agent Dashboard"
    /\ run.downloads = 0
    /\ run.raised = "none" /\ ~run.stopped
    /\ DOMAIN images = CardPlayers
    /\ images[<<"Connor", " ", "McDavid">>] = NoImage
    /\ images[<<"Cal", " ", "Foote">>].k = "url"

----------------------------------------------------------------------------
(* The cache of the loader functions.                                       *)

Retained(fn) == cache[fn].has /\ cache[fn].value # "none"

\* C17: once load_data has returned the worksheets, a later run of any page
\* gets the tables without an HTTP fetch (for the agency page: once
\* load_agencies_data has returned its sheet, too).
C17_NoFetchAfterSuccess ==
    [][ (Retained("load_data") /\ (run'.page = "Agency Dashboard" => Retained("load_agencies_data")))
            => run'.fetches = 0 ]_vars

----------------------------------------------------------------------------
(* Read-only worksheets.                                                    *)

\* C18: no step changes the loaded player, rank and agent worksheets, and
\* the table handed to compute_vcp_for_agent (the chosen rows) and to
\* compute_agent_vcp_by_season (the leaderboard's rows) holds the same rows
\* after the call as before it.
C18_ReadOnly ==
    [][ /\ piba_data' = piba_data
        /\ ranks_data' = ranks_data
        /\ agents_data' = agents_data
        /\ columns' = columns
        /\ phase' = "profiled" => FramesAfterVcp(agent_players')["arg"] = agent_players'
        /\ phase' = "board" =>
              FramesAfterBySeason(LeaderboardPlayers', columns)["arg"] = LeaderboardPlayers' ]_vars

\* C18 witness: a leaderboard was computed from rows with a text cell, which
\* the function's own frame holds as NaN; and the rows are still in the sheet.
C18_CoercedCopy ==
    /\ phase = "board"
    /\ agent_vcp_by_season.raised = "none"
    /\ HasCell(LeaderboardPlayers, "text")
    /\ ~HasCell(FramesAfterBySeason(LeaderboardPlayers, columns)["df"], "text")
    /\ HasCell(piba_data, "text")

----------------------------------------------------------------------------
(* Undefined percentages on the season lists.                               *)

\* C19: the season lists are rendered without an exception, and every card
\* of a season's winners and losers carries a number as its VCP; an agent
\* whose value total of the season is zero is on no list.
C19_ListsShowNumbers ==
    (phase = "board" /\ agent_vcp_by_season.raised = "none") =>
        /\ board.raised = "none"
        /\ \A s \in SeasonIdx :
              /\ \A i \in 1..Len(board.lists[s].winners) : board.lists[s].winners[i].VCP.k = "num"
              /\ \A i \in 1..Len(board.lists[s].losers) : board.lists[s].losers[i].VCP.k = "num"

----------------------------------------------------------------------------
(* Precedence of the headshot lookup.                                       *)

Readable == headshots_dir \in {"empty", "invalid", "extracted"}

\* the stored files a lookup of the name may return as an exact-prefix match:
\* .png files without "_away" whose lower-cased name starts with the
\* formatted name and "_"
PrefixFiles(n) ==
    {f \in headshot_files :
        /\ LowerTok(f[Len(f)]) = ".png"
        /\ \A i \in 1..(Len(f) - 1) : ~(f[i] = "_" /\ LowerTok(f[i + 1]) = "away")
        /\ StartsWith(Lower(f), Formatted(n) \o <<"_">>)}

\* C20: for every name looked up: a manual override of the lower-cased,
\* trimmed name is the result whatever files exist; without an override, if
\* the directory can be listed and holds a non-away .png starting with the
\* formatted name and "_", such a file is the result; a file that is no
\* exact-prefix file of the name is the result only when no exact-prefix
\* file exists; and without an override the result is None when the
\* directory is absent, when listing it raises, or when it holds no .png.
C20_LookupPrecedence ==
    \A n \in DOMAIN images :
        IF HasOverride(n)
        THEN images[n] = [k |-> "url", v |-> manual_photo_overrides[Strip(Lower(n))]]
        ELSE /\ images[n].k \in {"path", "none"}
             /\ (Readable /\ PrefixFiles(n) # {}) => (images[n].k = "path" /\ images[n].v \in PrefixFiles(n))
             /\ (images[n].k = "path" /\ images[n].v \notin PrefixFiles(n)) =>
                   (PrefixFiles(n) = {} /\ images[n].v \in possible_files(headshot_files))
             /\ (~Readable \/ possible_files(headshot_files) = {}) => images[n] = NoImage

\* C20 witness: a lookup of an overridden name while its local file exists.
C20_OverrideBeatsFile ==
    /\ headshots_dir = "extracted"
    /\ FootePng \in headshot_files
    /\ DOMAIN images = { <<" ", "Cal", " ", "Foote">> }
    /\ images[<<" ", "Cal", " ", "Foote">>].k = "url"

----------------------------------------------------------------------------
(* Reachability of the manual overrides.                                    *)

\* the spellings a sheet may hold an override's player under: the key as it
\* is written, and the key lower-cased
Spellings(key) == {key, Lower(key)}

\* C21: every key of manual_photo_overrides is lower-case, and for every
\* entry there is a name whose lookup returns the entry's URL (whatever the
\* directory holds).
C21_OverridesReachable ==
    \A key \in DOMAIN manual_photo_overrides :
        /\ Lower(key) = key
        /\ \E n \in Spellings(key) :
              get_headshot_path(n, headshots_dir, headshot_files) =
                  [k |-> "url", v |-> manual_photo_overrides[key]]

----------------------------------------------------------------------------
(* The 'All Clients' section.                                               *)

\* the last words of the displayed names in alphabetical order, whatever their case
Alphabet == <<"dal", "del", "foote", "riemsdyk", "svechnikov", "van", "zotto">>

AlphabetRank(w) == CHOOSE i \in 1..Len(Alphabet) : Alphabet[i] = LowerTok(w)

\* C22: in the 'All Clients (Alphabetical by Last Name)' section every card
\* is followed by a card whose displayed name has the same or a later last
\* word in the alphabet.
C22_AllClientsAlphabetical ==
    phase = "all_clients" =>
        \A i \in 1..(Len(cards) - 1) :
            AlphabetRank(LastWord(cards[i].display_name))
                <= AlphabetRank(LastWord(cards[i + 1].display_name))

\* ---------------------------------------------------------------------
\* C23: on every player card whose sheet row has delivery = cost - value,
\* the amount shown as Six-Year Agent Delivery is the amount shown as
\* Six-Year Player Cost minus the amount shown as Six-Year Player Value,
\* the player with the overridden cost included.
C23_DeliveryIsCostMinusValue ==
    \A i \in 1..Len(cards) :
        (cards[i].cost.k = "num" /\ cards[i].value.k = "num") =>
            cards[i].delivery = Num(cards[i].cost.v - cards[i].value.v)

\* ---------------------------------------------------------------------
\* C24: a run of the Agent Dashboard that loaded the workbook finds the
\* selected agent's row in both sheets and renders the profile: it raises
\* nothing, whichever name of the selector is picked and whether or not the
\* rank sheet has drifted from the agent sheet.
C24_SelectedAgentRenders ==
    (run.page = "Agent Dashboard" /\ ~run.stopped) =>
        /\ run.raised = "none"
        /\ \E i \in 1..Len(run.content) : run.content[i] = "header"

\* ---------------------------------------------------------------------
\* The leaderboard's season value against the profile's.

\* compute_vcp_for_agent's value for a season, on the agent's rows of the
\* player table (hundredths of a percent)
ProfileValue(agent, s) == VcpSeason(FilterRows(piba_data, "agent", agent), columns, seasons[s])

Distance(a, b) == IF a >= b THEN a - b ELSE b - a

\* C25 as stated: for every agent in a season's table the leaderboard value
\* is defined exactly when the profile value is, and it is the profile value
\* rounded to the nearest whole percent.
C25_LeaderboardIsRoundedProfile ==
    (phase = "board" /\ agent_vcp_by_season.raised = "none") =>
        \A s \in SeasonIdx :
            \A i \in 1..Len(agent_vcp_by_season.tables[s]) :
                LET row == agent_vcp_by_season.tables[s][i]
                    p == ProfileValue(row.agent, s)
                IN  /\ (row.VCP.k = "num") <=> (p.k = "num")
                    /\ row.VCP.k = "num" => row.VCP.v = RoundDiv(p.v, 100)

\* C25: for every agent in a season's table the leaderboard value is defined
\* exactly when the profile value is, and the two differ by at most half a
\* percent (each is the same ratio, rounded once: to a whole percent and to
\* two decimals).
C25_WithinHalfPercent ==
    (phase = "board" /\ agent_vcp_by_season.raised = "none") =>
        \A s \in SeasonIdx :
            \A i \in 1..Len(agent_vcp_by_season.tables[s]) :
                LET row == agent_vcp_by_season.tables[s][i]
                    p == ProfileValue(row.agent, s)
                IN  /\ (row.VCP.k = "num") <=> (p.k = "num")
                    /\ row.VCP.k = "num" => Distance(100 * row.VCP.v, p.v) <= 50

\* C25 witness: an agent with three rows whose season ratio is 86/103 =
\* 83.495...%: 83 on the leaderboard, 83.5 on the profile.
C25_RoundedTwice ==
    /\ phase = "board"
    /\ agent_vcp_by_season.raised = "none"
    /\ \E i \in 1..Len(agent_vcp_by_season.tables[1]) :
          /\ agent_vcp_by_season.tables[1][i].VCP = Num(83)
          /\ ClientRows(agent_vcp_by_season.tables[1][i].agent) > 2
          /\ ProfileValue(agent_vcp_by_season.tables[1][i].agent, 1) = Num(8350)

\* ---------------------------------------------------------------------
\* C26: once extract_headshots has run and its download failed or its
\* archive was no zip file, the directory exists without extracted images;
\* no later run downloads or extracts anything, and the directory and its
\* files stay as the failed run left them.
C26_FailedLoadNeverRetried ==
    [][ (headshots_dir = "empty" \/ headshots_dir = "invalid") =>
            ( /\ run'.downloads = 0
              /\ ArchiveFiles \cap headshot_files' = {}
              /\ headshots_dir' = headshots_dir
              /\ headshot_files' = headshot_files ) ]_vars

\* C26 witness: after a download that failed, a later run of the Agent
\* Dashboard renders the cards without downloading: the directory is still
\* empty.
C26_LaterRunAfterFailedDownload ==
    /\ headshots_dir = "empty"
    /\ headshot_files = {}
    /\ run.page = "Agent Dashboard"
    /\ run.downloads = 0
    /\ run.raised = "none" /\ ~run.stopped
    /\ DOMAIN images = CardPlayers
    /\ images[<<"Connor", " ", "McDavid">>] = NoImage

\* ---------------------------------------------------------------------
\* The overall leaderboard with and without the minimum-contracts filter.

\* a is b with some rows left out
RECURSIVE IsSubsequence(_, _)
IsSubsequence(a, b) ==
    IF a = <<>> THEN TRUE
    ELSE IF b = <<>> THEN FALSE
    ELSE IF Head(a) = Head(b) THEN IsSubsequence(Tail(a), Tail(b))
    ELSE IsSubsequence(a, Tail(b))

\* the rank rows the leaderboard works on
ValidRanks == KeepValid(ranks_data, valid_agents(agents_data))

\* C27 as stated: the board shown with the filter on is a subsequence of the
\* board shown with the filter off, for every rank table.
C27_FilteredWithinUnfiltered ==
    (phase = "board" /\ board.filter_option) =>
        IsSubsequence(board.overall, overall_table(ValidRanks, FALSE, tie_order))

\* C27: the board shown with the filter on is a subsequence of the whole
\* rank table sorted by Dollar Index, holds only rows with at least 10
\* contracts tracked, and is a subsequence of the board shown with the filter
\* off when the table has at most 90 rows.
C27_FilteredWithinSorted ==
    (phase = "board" /\ board.filter_option) =>
        /\ IsSubsequence(board.overall, sort_values(ValidRanks, "DollarIndex", FALSE, tie_order))
        /\ \A i \in 1..Len(board.overall) : ValueGE(board.overall[i].CT, Num(MinContracts))
        /\ Len(ValidRanks) <= HeadLimit =>
              IsSubsequence(board.overall, overall_table(ValidRanks, FALSE, tie_order))

\* C27 witness: a table of 91 agents, filtered: the board has 90 rows, and
\* its last row is the 91st by Dollar Index, which the unfiltered board
\* does not reach.
C27_FilteredBeyondTruncation ==
    /\ phase = "board"
    /\ board.filter_option
    /\ Len(ValidRanks) > HeadLimit
    /\ Len(board.overall) = HeadLimit
    /\ board.overall[1].agent = LongAgent(2)
    /\ board.overall[HeadLimit].agent = LongAgent(HeadLimit + 1)

\* ---------------------------------------------------------------------
\* C28: the six season tables of compute_agent_vcp_by_season hold the same
\* agents: the client count is the number of the agent's rows in the whole
\* player table, whatever the season's cells hold.
C28_SameAgentsEverySeason ==
    (phase = "board" /\ agent_vcp_by_season.raised = "none") =>
        \A s \in SeasonIdx, t \in SeasonIdx : TableAgents(s) = TableAgents(t)

\* C28 witness: an agent with three rows, none of which has data in the
\* last season, is in the first season's table with a number and in the last
\* season's table without one.
C28_NoDataInLastSeason ==
    /\ phase = "board"
    /\ agent_vcp_by_season.raised = "none"
    /\ ClientRows(AgentA) = 3
    /\ \A i \in 1..Len(piba_data) :
          piba_data[i].agent = AgentA =>
              /\ piba_data[i].cells[seasons[6].cost_col] = NaN
              /\ piba_data[i].cells[seasons[6].pc_col] = NaN
    /\ \E i \in 1..Len(agent_vcp_by_season.tables[1]) :
          /\ agent_vcp_by_season.tables[1][i].agent = AgentA
          /\ agent_vcp_by_season.tables[1][i].VCP.k = "num"
    /\ \E i \in 1..Len(agent_vcp_by_season.tables[6]) :
          /\ agent_vcp_by_season.tables[6][i].agent = AgentA
          /\ agent_vcp_by_season.tables[6][i].VCP.k # "num"

====
